---- MODULE Spec2Model ----
(***************************************************************************)
(* Reptation Monte Carlo on a periodic square lattice.                     *)
(*                                                                         *)
(* The state is that of one SimulationEngine instance                      *)
(* (src/services/SimulationEngine.ts) together with the position of the    *)
(* call in progress and the value the last call returned.  The engine is   *)
(* driven the way src/App.tsx drives it: structural parameter changes      *)
(* build a new engine, maxSteps changes go through updateParams().         *)
(*                                                                         *)
(* Encodings.                                                              *)
(*  - A Point is a record [x, y].  A map/set key `${x},${y}` is the pair   *)
(*    <<x, y>>: the decimal rendering of two integers joined by a comma    *)
(*    is injective, and so is the pair.                                    *)
(*  - Math.random() is a nondeterministic choice over its outcomes.        *)
(*  - A quotient of two integers is the record [num, den] with den > 0,    *)
(*    built by the same operations, in the same order, as the code         *)
(*    builds the float.  A square root is kept as its radicand.            *)
(*  - obstacleConcentration is a whole number of percent.                  *)
(***************************************************************************)
EXTENDS Integers, Sequences, FiniteSets, TLC

\* ------------------------------------------------------------------ bounds

\* Lattice sides explored: the 2 x 2 torus, where the two neighbours along an
\* axis coincide, and the 3 x 3 torus, the smallest on which a bond across the
\* boundary has a raw delta of magnitude 2.
LatticeSizes == {2, 3}
\* numChains ranges over 1..MaxChains.
MaxChains == 2
\* chainLength ranges over 1..MaxLen.
MaxLen == 3
\* maxSteps ranges over 0..MaxSteps.
MaxSteps == 2
\* At most this many obstacles are placed.
MaxObstacles == 1
\* Obstacle concentrations explored, in percent: none, the initial value of
\* the application (0.12) and the largest the controls offer (0.4).
ObstaclePercents == {0, 12, 40}

\* Retry budget of the grow-or-retry loop.
GrowthAttempts == 200

\* Math.floor(totalSites * obstacleConcentration)
NumObstacles(p) == (p.latticeSize * p.latticeSize * p.obstacleConcentration) \div 100

\* The parameter records explored.  The 2 x 2 torus takes every combination;
\* a larger lattice takes a single chain, no longer than the ring that closes
\* around the torus.
ParamSet ==
  {p \in [latticeSize : LatticeSizes,
          numChains : 1..MaxChains,
          chainLength : 1..MaxLen,
          obstacleConcentration : ObstaclePercents,
          maxSteps : 0..MaxSteps] :
     /\ NumObstacles(p) <= MaxObstacles
     /\ p.latticeSize > 2 => (p.numChains = 1 /\ p.chainLength <= p.latticeSize)}

\* ------------------------------------------------------------------ state

VARIABLES
  params,               \* this.params
  chains,               \* this.chains: sequence of sequences of Points
  initialR0,            \* this.initialR0: sequence of [x, y]
  initialR0SquaredSum,  \* this.initialR0SquaredSum
  obstacles,            \* this.obstacles: set of keys
  occupied,             \* this.occupied: function key -> count
  steps,                \* this.steps
  successfulMoves,      \* this.successfulMoves
  pc,                   \* position: "constructor", "obstacles", "chains",
                        \* "idle", "sweep"
  slot,                 \* counter of the loop in progress: `placed`, the i of
                        \* the chain loop, the i of the sweep
  attemptNo,            \* the `attempt` of the grow-or-retry loop
  attempts,             \* reptate() calls made since the last reset (history)
  returned              \* what the last completed call returned; after a
                        \* reptate(), which returns nothing, the draws it made
                        \* and whether it accepted a move (history)

vars == <<params, chains, initialR0, initialR0SquaredSum, obstacles, occupied,
          steps, successfulMoves, pc, slot, attemptNo, attempts,
          returned>>

\* Return value of a call that returns nothing.
Void == [kind |-> "void"]

\* ------------------------------------------------------------------ helpers

Range(s) == {s[i] : i \in DOMAIN s}

Max(a, b) == IF a >= b THEN a ELSE b

Point(x, y) == [x |-> x, y |-> y]

Key(x, y) == <<x, y>>

Sites(L) == {Point(x, y) : x \in 0..(L - 1), y \in 0..(L - 1)}

\* Map.get(key) || 0
Count(occ, key) == IF key \in DOMAIN occ THEN occ[key] ELSE 0

EmptyMap == [k \in {} |-> 0]

incrementOccupancy(occ, x, y) ==
  LET key == Key(x, y)
  IN [k \in (DOMAIN occ) \cup {key} |-> IF k = key THEN Count(occ, key) + 1 ELSE occ[k]]

\* decrementOccupancy as it would be if the count were always stored back:
\* a key whose count reaches 0 stays in the map.
decrementKeepingZero(occ, x, y) ==
  LET key == Key(x, y)
      count == Count(occ, key)
  IN IF key \in DOMAIN occ
       THEN [k \in DOMAIN occ |-> IF k = key THEN Max(count - 1, 0) ELSE occ[k]]
       ELSE occ

decrementOccupancy(occ, x, y) ==
  LET key == Key(x, y)
      count == Count(occ, key)
  IN IF count <= 1
       THEN [k \in (DOMAIN occ) \ {key} |-> occ[k]]
       ELSE [k \in DOMAIN occ |-> IF k = key THEN count - 1 ELSE occ[k]]

isSiteOccupied(obst, occ, x, y) ==
  LET key == Key(x, y)
  IN key \in obst \/ key \in DOMAIN occ

getNeighbors(L, x, y) ==
  << Point((x + 1) % L, y),
     Point((x - 1 + L) % L, y),
     Point(x, (y + 1) % L),
     Point(x, (y - 1 + L) % L) >>

\* MinimumImage as it would be if the correction were applied only to deltas
\* beyond the lattice side, which no raw delta reaches.
MinimumImageTooLate(L, d) == IF d > L THEN d - L ELSE IF d < -L THEN d + L ELSE d

\* if (d > 1) d -= L; else if (d < -1) d += L;
MinimumImage(L, d) == IF d > 1 THEN d - L ELSE IF d < -1 THEN d + L ELSE d

RECURSIVE UnwrappedFrom(_, _, _)
\* The running sum of corrected bond deltas from bond i to the last bond.
UnwrappedFrom(L, chain, i) ==
  IF i > Len(chain) - 1
    THEN Point(0, 0)
    ELSE LET p1 == chain[i]
             p2 == chain[i + 1]
             dx == MinimumImage(L, p2.x - p1.x)
             dy == MinimumImage(L, p2.y - p1.y)
             rest == UnwrappedFrom(L, chain, i + 1)
         IN Point(dx + rest.x, dy + rest.y)

getUnwrappedEndToEnd(L, chain) == UnwrappedFrom(L, chain, 1)

\* ------------------------------------------------------------------ reset

\* The field initialisers (SimulationEngine.ts:5-13); the constructor is about
\* to call reset().
Init ==
  /\ params \in ParamSet
  /\ chains = <<>>
  /\ initialR0 = <<>>
  /\ initialR0SquaredSum = 0
  /\ obstacles = {}
  /\ occupied = EmptyMap
  /\ steps = 0
  /\ successfulMoves = 0
  /\ pc = "constructor"
  /\ slot = 0
  /\ attempts = 0
  /\ returned = Void
  /\ attemptNo = 0

\* reset(), lines 25-31: everything is cleared.
Reset ==
  /\ pc \in {"constructor", "idle"}
  /\ steps' = 0
  /\ successfulMoves' = 0
  /\ obstacles' = {}
  /\ occupied' = EmptyMap
  /\ chains' = <<>>
  /\ initialR0' = <<>>
  /\ initialR0SquaredSum' = 0
  /\ attempts' = 0
  /\ slot' = 0
  /\ pc' = "obstacles"
  /\ returned' = Void
  /\ UNCHANGED params
  /\ attemptNo' = 0

\* PlaceObstacle as it would be if `placed` were counted up on every draw,
\* duplicates included.
PlaceObstacleCountingDraws ==
  /\ pc = "obstacles"
  /\ slot < NumObstacles(params)
  /\ \E s \in Sites(params.latticeSize) :
       obstacles' = obstacles \cup {Key(s.x, s.y)}
  /\ slot' = slot + 1
  /\ UNCHANGED <<params, chains, initialR0, initialR0SquaredSum, occupied,
                 steps, successfulMoves, pc, attempts, returned>>
  /\ UNCHANGED attemptNo

\* reset(), lines 39-47: one iteration of the rejection-sampling loop; slot
\* is `placed`.  A draw that hits a site already in the set changes nothing.
PlaceObstacle ==
  /\ pc = "obstacles"
  /\ slot < NumObstacles(params)
  /\ \E s \in Sites(params.latticeSize) :
       LET key == Key(s.x, s.y)
       IN IF key \notin obstacles
            THEN /\ obstacles' = obstacles \cup {key}
                 /\ slot' = slot + 1
            ELSE UNCHANGED <<obstacles, slot>>
  /\ UNCHANGED <<params, chains, initialR0, initialR0SquaredSum, occupied,
                 steps, successfulMoves, pc, attempts, returned>>
  /\ UNCHANGED attemptNo

\* reset(), line 39: the loop ends once `placed` has reached numObstacles.
ObstaclesPlaced ==
  /\ pc = "obstacles"
  /\ slot >= NumObstacles(params)
  /\ pc' = "chains"
  /\ slot' = 0
  /\ UNCHANGED <<params, chains, initialR0, initialR0SquaredSum, obstacles,
                 occupied, steps, successfulMoves, attempts, returned>>
  /\ UNCHANGED attemptNo

RECURSIVE GrowFrom(_, _, _, _, _)
\* reset(), lines 63-75: the growth loop from segment index j on, with the
\* partial chain tempChain already placed and counted in occ.  Every way the
\* random picks can go gives one result.
GrowFrom(p, obst, occ, tempChain, j) ==
  IF j >= p.chainLength
    THEN {[growthFailed |-> FALSE, tempChain |-> tempChain, occupied |-> occ]}
    ELSE LET last == tempChain[Len(tempChain)]
             neighbors == SelectSeq(getNeighbors(p.latticeSize, last.x, last.y),
                                    LAMBDA q : ~isSiteOccupied(obst, occ, q.x, q.y))
         IN IF Len(neighbors) > 0
              THEN UNION {GrowFrom(p, obst, incrementOccupancy(occ, next.x, next.y),
                                   Append(tempChain, next), j + 1) :
                          next \in Range(neighbors)}
              ELSE {[growthFailed |-> TRUE, tempChain |-> tempChain, occupied |-> occ]}

RECURSIVE RollbackAfterStart(_, _, _)
\* Rollback as it would be if the walk over tempChain began one entry late,
\* leaving the start site counted.
RollbackAfterStart(occ, tempChain, i) ==
  IF i >= Len(tempChain)
    THEN occ
    ELSE RollbackAfterStart(
           decrementOccupancy(occ, tempChain[i + 1].x, tempChain[i + 1].y),
           tempChain, i + 1)

RECURSIVE Rollback(_, _, _)
\* tempChain.forEach(p => this.decrementOccupancy(p.x, p.y)), from index i on
Rollback(occ, tempChain, i) ==
  IF i > Len(tempChain)
    THEN occ
    ELSE Rollback(decrementOccupancy(occ, tempChain[i].x, tempChain[i].y), tempChain, i + 1)

\* GrowthAttempt as it would be if a trapped partial chain were committed
\* instead of rolled back.
GrowthAttemptKeepingShort(p, obst, occ) ==
  UNION {
    IF isSiteOccupied(obst, occ, start.x, start.y)
      THEN {[chainFound |-> FALSE, chain |-> <<>>, occupied |-> occ]}
      ELSE {[chainFound |-> TRUE, chain |-> r.tempChain, occupied |-> r.occupied] :
            r \in GrowFrom(p, obst, incrementOccupancy(occ, start.x, start.y),
                           <<start>>, 1)} :
    start \in Sites(p.latticeSize)}

\* reset(), lines 53-84: one growth attempt from the ledger occ.
GrowthAttempt(p, obst, occ) ==
  UNION {
    IF isSiteOccupied(obst, occ, start.x, start.y)
      THEN {[chainFound |-> FALSE, chain |-> <<>>, occupied |-> occ]}
      ELSE {IF ~r.growthFailed /\ Len(r.tempChain) = p.chainLength
              THEN [chainFound |-> TRUE, chain |-> r.tempChain, occupied |-> r.occupied]
              ELSE [chainFound |-> FALSE, chain |-> <<>>,
                    occupied |-> Rollback(r.occupied, r.tempChain, 1)] :
            r \in GrowFrom(p, obst, incrementOccupancy(occ, start.x, start.y),
                           <<start>>, 1)} :
    start \in Sites(p.latticeSize)}

RECURSIVE AttemptsFrom(_, _, _, _, _)
\* reset(), lines 52-85: the retry loop from attempt number `attempt` on.
\* ledgers is the set of ledgers the failed attempts so far can have left,
\* found the set of chains committed so far.  Once an attempt adds nothing to
\* either set no later attempt can, and the remaining attempts are skipped.
AttemptsFrom(p, obst, attempt, ledgers, found) ==
  IF attempt >= GrowthAttempts
    THEN found \cup {[chainFound |-> FALSE, chain |-> <<>>, occupied |-> o] : o \in ledgers}
    ELSE LET outs == UNION {GrowthAttempt(p, obst, o) : o \in ledgers}
             failed == {r.occupied : r \in {q \in outs : ~q.chainFound}}
             found2 == found \cup {q \in outs : q.chainFound}
         IN IF failed = ledgers /\ found2 = found
              THEN AttemptsFrom(p, obst, GrowthAttempts, ledgers, found)
              ELSE AttemptsFrom(p, obst, attempt + 1, failed, found2)

\* reset(), lines 50-86: one iteration of the chain loop; the slot is filled
\* by the first attempt that succeeds, or left out when all of them fail.
GrowChain ==
  /\ pc = "chains"
  /\ slot < params.numChains
  /\ \E r \in AttemptsFrom(params, obstacles, 0, {occupied}, {}) :
       /\ chains' = IF r.chainFound THEN Append(chains, r.chain) ELSE chains
       /\ occupied' = r.occupied
  /\ slot' = slot + 1
  /\ UNCHANGED <<params, initialR0, initialR0SquaredSum, obstacles, steps,
                 successfulMoves, pc, attempts, returned>>
  /\ UNCHANGED attemptNo

RECURSIVE SquaredSum(_, _)
\* initialR0SquaredSum += r0.x * r0.x + r0.y * r0.y, from entry i on
SquaredSum(r0s, i) ==
  IF i > Len(r0s)
    THEN 0
    ELSE r0s[i].x * r0s[i].x + r0s[i].y * r0s[i].y + SquaredSum(r0s, i + 1)

\* reset(), lines 88-93: the initial snapshot, after which reset() returns.
CaptureInitial ==
  /\ pc = "chains"
  /\ slot >= params.numChains
  /\ initialR0' = [i \in 1..Len(chains) |->
                     getUnwrappedEndToEnd(params.latticeSize, chains[i])]
  /\ initialR0SquaredSum' = SquaredSum(initialR0', 1)
  /\ pc' = "idle"
  /\ returned' = Void
  /\ UNCHANGED <<params, chains, obstacles, occupied, steps, successfulMoves,
                 slot, attempts>>
  /\ UNCHANGED attemptNo

\* ------------------------------------------------------------------ step

\* validMoves as it would be without the obstacle test.
validMovesIgnoringObstacles(obst, occ, headPos, tailPos, L) ==
  SelectSeq(getNeighbors(L, headPos.x, headPos.y),
            LAMBDA q :
              LET key == Key(q.x, q.y)
                  occCount == Count(occ, key)
              IN IF occCount = 0 THEN TRUE
                 ELSE IF q.x = tailPos.x /\ q.y = tailPos.y /\ occCount = 1 THEN TRUE
                 ELSE FALSE)

\* validMoves as it would be if any site holding a single segment passed for
\* the vacating end.
validMovesAnySingle(obst, occ, headPos, tailPos, L) ==
  SelectSeq(getNeighbors(L, headPos.x, headPos.y),
            LAMBDA q :
              LET key == Key(q.x, q.y)
                  occCount == Count(occ, key)
              IN IF key \in obst THEN FALSE
                 ELSE IF occCount = 0 THEN TRUE
                 ELSE IF occCount = 1 THEN TRUE
                 ELSE FALSE)

\* validMoves as it would be without the exception for the vacating end:
\* every site that holds a segment is refused.
validMovesNoReentry(obst, occ, headPos, tailPos, L) ==
  SelectSeq(getNeighbors(L, headPos.x, headPos.y),
            LAMBDA q :
              LET key == Key(q.x, q.y)
                  occCount == Count(occ, key)
              IN IF key \in obst THEN FALSE
                 ELSE IF occCount = 0 THEN TRUE
                 ELSE FALSE)

\* validMoves as it would be if the comparison with the vacating end had its
\* coordinates crossed.
validMovesCrossedTail(obst, occ, headPos, tailPos, L) ==
  SelectSeq(getNeighbors(L, headPos.x, headPos.y),
            LAMBDA q :
              LET key == Key(q.x, q.y)
                  occCount == Count(occ, key)
              IN IF key \in obst THEN FALSE
                 ELSE IF occCount = 0 THEN TRUE
                 ELSE IF q.x = tailPos.y /\ q.y = tailPos.x /\ occCount = 1 THEN TRUE
                 ELSE FALSE)

\* reptate(), lines 159-167: the destinations that pass the filter, in the
\* order getNeighbors lists them.
validMoves(obst, occ, headPos, tailPos, L) ==
  SelectSeq(getNeighbors(L, headPos.x, headPos.y),
            LAMBDA q :
              LET key == Key(q.x, q.y)
                  occCount == Count(occ, key)
              IN IF key \in obst THEN FALSE
                 ELSE IF occCount = 0 THEN TRUE
                 ELSE IF q.x = tailPos.x /\ q.y = tailPos.y /\ occCount = 1 THEN TRUE
                 ELSE FALSE)

\* Slide as it would be if the new site were pushed at the back whichever end
\* was chosen.
SlideAtBack(chain, isHead, nextPos) == Tail(Append(chain, nextPos))

\* Slide as it would be if the segment were dropped at the end it was just
\* added to: unshift then shift, push then pop.
SlideDroppingNewSite(chain, isHead, nextPos) ==
  IF isHead
    THEN Tail(<<nextPos>> \o chain)
    ELSE SubSeq(Append(chain, nextPos), 1, Len(chain))

\* chain.unshift(nextPos); chain.pop()  /  chain.push(nextPos); chain.shift()
Slide(chain, isHead, nextPos) ==
  IF isHead
    THEN SubSeq(<<nextPos>> \o chain, 1, Len(chain))
    ELSE Tail(Append(chain, nextPos))

\* MoveEnd as it would be if the random index were applied to the list of
\* all neighbours instead of the list of valid ones.
MoveEndAmongAllNeighbours(p, obst, e, chainIdx, isHead) ==
  LET chain == e.chains[chainIdx]
      headPos == IF isHead THEN chain[1] ELSE chain[Len(chain)]
      tailPos == IF isHead THEN chain[Len(chain)] ELSE chain[1]
      moves == validMoves(obst, e.occupied, headPos, tailPos, p.latticeSize)
      neighbors == getNeighbors(p.latticeSize, headPos.x, headPos.y)
  IN IF Len(moves) > 0
       THEN {[chains |-> [e.chains EXCEPT ![chainIdx] = Slide(chain, isHead, nextPos)],
              occupied |-> incrementOccupancy(
                             decrementOccupancy(e.occupied, tailPos.x, tailPos.y),
                             nextPos.x, nextPos.y),
              successfulMoves |-> e.successfulMoves + 1] :
             nextPos \in {neighbors[i] : i \in 1..Len(moves)}}
       ELSE {e}

\* MoveEnd as it would be if successfulMoves were counted up after the test
\* of line 169 instead of inside it.
MoveEndCountingRejections(p, obst, e, chainIdx, isHead) ==
  LET chain == e.chains[chainIdx]
      headPos == IF isHead THEN chain[1] ELSE chain[Len(chain)]
      tailPos == IF isHead THEN chain[Len(chain)] ELSE chain[1]
      moves == validMoves(obst, e.occupied, headPos, tailPos, p.latticeSize)
  IN IF Len(moves) > 0
       THEN {[chains |-> [e.chains EXCEPT ![chainIdx] = Slide(chain, isHead, nextPos)],
              occupied |-> incrementOccupancy(
                             decrementOccupancy(e.occupied, tailPos.x, tailPos.y),
                             nextPos.x, nextPos.y),
              successfulMoves |-> e.successfulMoves + 1] :
             nextPos \in Range(moves)}
       ELSE {[e EXCEPT !.successfulMoves = e.successfulMoves + 1]}

\* MoveEnd as it would be without the successfulMoves++ of line 180.
MoveEndNotCounting(p, obst, e, chainIdx, isHead) ==
  LET chain == e.chains[chainIdx]
      headPos == IF isHead THEN chain[1] ELSE chain[Len(chain)]
      tailPos == IF isHead THEN chain[Len(chain)] ELSE chain[1]
      moves == validMoves(obst, e.occupied, headPos, tailPos, p.latticeSize)
  IN IF Len(moves) > 0
       THEN {[chains |-> [e.chains EXCEPT ![chainIdx] = Slide(chain, isHead, nextPos)],
              occupied |-> incrementOccupancy(
                             decrementOccupancy(e.occupied, tailPos.x, tailPos.y),
                             nextPos.x, nextPos.y),
              successfulMoves |-> e.successfulMoves] :
             nextPos \in Range(moves)}
       ELSE {e}

\* MoveEnd as it would be if the moved chain were written back at index 0
\* of the population instead of index chainIdx.
MoveEndWritingFirstChain(p, obst, e, chainIdx, isHead) ==
  LET chain == e.chains[chainIdx]
      headPos == IF isHead THEN chain[1] ELSE chain[Len(chain)]
      tailPos == IF isHead THEN chain[Len(chain)] ELSE chain[1]
      moves == validMoves(obst, e.occupied, headPos, tailPos, p.latticeSize)
  IN IF Len(moves) > 0
       THEN {[chains |-> [e.chains EXCEPT ![1] = Slide(chain, isHead, nextPos)],
              occupied |-> incrementOccupancy(
                             decrementOccupancy(e.occupied, tailPos.x, tailPos.y),
                             nextPos.x, nextPos.y),
              successfulMoves |-> e.successfulMoves + 1] :
             nextPos \in Range(moves)}
       ELSE {e}

\* reptate(), lines 150-181, for the chain and the end the random draws chose.
\* e is the engine state [chains, occupied, successfulMoves] the attempt starts in.
MoveEnd(p, obst, e, chainIdx, isHead) ==
  LET chain == e.chains[chainIdx]
      headPos == IF isHead THEN chain[1] ELSE chain[Len(chain)]
      tailPos == IF isHead THEN chain[Len(chain)] ELSE chain[1]
      moves == validMoves(obst, e.occupied, headPos, tailPos, p.latticeSize)
  IN IF Len(moves) > 0
       THEN {[chains |-> [e.chains EXCEPT ![chainIdx] = Slide(chain, isHead, nextPos)],
              occupied |-> incrementOccupancy(
                             decrementOccupancy(e.occupied, tailPos.x, tailPos.y),
                             nextPos.x, nextPos.y),
              successfulMoves |-> e.successfulMoves + 1] :
             nextPos \in Range(moves)}
       ELSE {e}

\* reptate(), lines 147-182: every result one move attempt can have.
reptate(p, obst, e) ==
  IF Len(e.chains) = 0
    THEN {e}
    ELSE UNION {MoveEnd(p, obst, e, chainIdx, isHead) :
                chainIdx \in 1..Len(e.chains), isHead \in BOOLEAN}

RECURSIVE Sweep(_, _, _, _)
\* step(), lines 141-143: the states k further reptate() calls can lead to
\* from the states in es.
Sweep(p, obst, es, k) ==
  IF k = 0
    THEN es
    ELSE Sweep(p, obst, UNION {reptate(p, obst, e) : e \in es}, k - 1)

\* Step as it would be without the early return of line 139.
StepPastTheEnd ==
  /\ pc = "idle"
  /\ returned' = Void
  /\ LET n == Max(1, params.numChains)
     IN /\ \E e \in Sweep(params, obstacles,
                          {[chains |-> chains, occupied |-> occupied,
                            successfulMoves |-> successfulMoves]}, n) :
             /\ chains' = e.chains
             /\ occupied' = e.occupied
             /\ successfulMoves' = e.successfulMoves
        /\ steps' = steps + 1
        /\ attempts' = attempts + n
  /\ UNCHANGED <<params, initialR0, initialR0SquaredSum, obstacles, pc, slot>>
  /\ UNCHANGED attemptNo

\* step(), lines 138-145.
Step ==
  /\ pc = "idle"
  /\ returned' = Void
  /\ IF steps >= params.maxSteps
       THEN UNCHANGED <<chains, occupied, successfulMoves, steps, attempts>>
       ELSE LET n == Max(1, params.numChains)
            IN /\ \E e \in Sweep(params, obstacles,
                                 {[chains |-> chains, occupied |-> occupied,
                                   successfulMoves |-> successfulMoves]}, n) :
                    /\ chains' = e.chains
                    /\ occupied' = e.occupied
                    /\ successfulMoves' = e.successfulMoves
               /\ steps' = steps + 1
               /\ attempts' = attempts + n
  /\ UNCHANGED <<params, initialR0, initialR0SquaredSum, obstacles, pc, slot>>
  /\ UNCHANGED attemptNo

\* ------------------------------------------------------------------ statistics

Frac(n, d) == [num |-> n, den |-> d]

\* a / b for quotients a and b, b > 0
FracDiv(a, b) == Frac(a.num * b.den, a.den * b.num)

\* a + b for quotients a and b
FracAdd(a, b) == Frac(a.num * b.den + b.num * a.den, a.den * b.den)

RECURSIVE SumTo(_, _)
\* f[1] + ... + f[n]
SumTo(f, n) == IF n = 0 THEN 0 ELSE f[n] + SumTo(f, n - 1)

RECURSIVE FracSumTo(_, _)
\* f[1] + ... + f[n] for quotients, starting from 0
FracSumTo(f, n) == IF n = 0 THEN Frac(0, 1) ELSE FracAdd(FracSumTo(f, n - 1), f[n])

\* getStats(), lines 198-216: the squared radius of gyration of one chain.
\* chainUX[i], chainUY[i] are the running sums of the corrected bond deltas;
\* with n = chain.length, SX the sum of chainUX and SY that of chainUY,
\* the sum over i of (chainUX[i] - SX/n)^2 + (chainUY[i] - SY/n)^2, divided by
\* n, is the sum of (n chainUX[i] - SX)^2 + (n chainUY[i] - SY)^2 over n^3.
ChainRg2(L, chain) ==
  LET n == Len(chain)
      u == [i \in 1..n |-> getUnwrappedEndToEnd(L, SubSeq(chain, 1, i))]
      SX == SumTo([i \in 1..n |-> u[i].x], n)
      SY == SumTo([i \in 1..n |-> u[i].y], n)
      sq == [i \in 1..n |-> (n * u[i].x - SX) * (n * u[i].x - SX)
                            + (n * u[i].y - SY) * (n * u[i].y - SY)]
  IN Frac(SumTo(sq, n), n * n * n)

\* StatsOf as it would be if the stored sum of initial squared magnitudes were
\* not averaged over the chains before normalising.
StatsOfUnaveragedNorm(p, chs, r0s, r0SquaredSum, st, succ) ==
  LET M == Len(chs)
      L == p.latticeSize
      r == [i \in 1..M |-> getUnwrappedEndToEnd(L, chs[i])]
      r2 == [i \in 1..M |-> r[i].x * r[i].x + r[i].y * r[i].y]
      rg2 == [i \in 1..M |-> ChainRg2(L, chs[i])]
      sumR2 == SumTo(r2, M)
      sumRg2 == FracSumTo(rg2, M)
      sumDotProduct == SumTo([i \in 1..M |-> r[i].x * r0s[i].x + r[i].y * r0s[i].y], M)
      N == IF M = 0 THEN 1 ELSE M
      avgR2 == Frac(sumR2, N)
      avgRg2 == Frac(sumRg2.num, sumRg2.den * N)
      avgDot == Frac(sumDotProduct, N)
      initialAvgR2 == IF r0SquaredSum = 0 THEN Frac(1, 1) ELSE Frac(r0SquaredSum, 1)
  IN [kind |-> "stats",
      steps |-> st,
      rmsEndToEnd |-> [sqrt |-> avgR2],
      meanEndToEnd |-> [sqrts |-> r2, den |-> N],
      radiusOfGyration |-> [sqrt |-> avgRg2],
      meanRadiusOfGyration |-> [sqrts |-> rg2, den |-> N],
      successfulMoves |-> succ,
      acceptanceRatio |-> IF st > 0 THEN Frac(succ, st * N) ELSE Frac(0, 1),
      autocorrelation |-> FracDiv(avgDot, initialAvgR2),
      rawAutocorrelation |-> avgDot,
      isFinished |-> (st >= p.maxSteps)]

\* getStats(), lines 187-242: the record returned for the engine state given.
StatsOf(p, chs, r0s, r0SquaredSum, st, succ) ==
  LET M == Len(chs)
      L == p.latticeSize
      r == [i \in 1..M |-> getUnwrappedEndToEnd(L, chs[i])]
      r2 == [i \in 1..M |-> r[i].x * r[i].x + r[i].y * r[i].y]
      rg2 == [i \in 1..M |-> ChainRg2(L, chs[i])]
      sumR2 == SumTo(r2, M)
      sumRg2 == FracSumTo(rg2, M)
      sumDotProduct == SumTo([i \in 1..M |-> r[i].x * r0s[i].x + r[i].y * r0s[i].y], M)
      N == IF M = 0 THEN 1 ELSE M
      avgR2 == Frac(sumR2, N)
      avgRg2 == Frac(sumRg2.num, sumRg2.den * N)
      avgDot == Frac(sumDotProduct, N)
      initialAvgR2 == IF r0SquaredSum = 0 THEN Frac(1, 1) ELSE Frac(r0SquaredSum, N)
  IN [kind |-> "stats",
      steps |-> st,
      rmsEndToEnd |-> [sqrt |-> avgR2],
      meanEndToEnd |-> [sqrts |-> r2, den |-> N],
      radiusOfGyration |-> [sqrt |-> avgRg2],
      meanRadiusOfGyration |-> [sqrts |-> rg2, den |-> N],
      successfulMoves |-> succ,
      acceptanceRatio |-> IF st > 0 THEN Frac(succ, st * N) ELSE Frac(0, 1),
      autocorrelation |-> FracDiv(avgDot, initialAvgR2),
      rawAutocorrelation |-> avgDot,
      isFinished |-> (st >= p.maxSteps)]

\* getStats() on the engine as it stands
getStats == StatsOf(params, chains, initialR0, initialR0SquaredSum, steps, successfulMoves)

\* GetStats as it would be if the call refreshed the stored snapshot with the
\* vectors it has just computed.
GetStatsRefreshingSnapshot ==
  /\ pc = "idle"
  /\ UNCHANGED <<params, chains, obstacles, occupied, steps, successfulMoves,
                 pc, slot, attempts>>
  /\ returned' = getStats
  /\ initialR0' = [i \in 1..Len(chains) |->
                     getUnwrappedEndToEnd(params.latticeSize, chains[i])]
  /\ initialR0SquaredSum' = SquaredSum(initialR0', 1)
  /\ UNCHANGED attemptNo

\* getStats(), lines 187-242: nothing is assigned but locals.
GetStats ==
  /\ pc = "idle"
  /\ UNCHANGED <<params, chains, initialR0, initialR0SquaredSum, obstacles,
                 occupied, steps, successfulMoves, pc, slot, attempts>>
  /\ returned' = getStats
  /\ UNCHANGED attemptNo

\* ------------------------------------------------------------------ parameters

\* UpdateParams as it would be if taking new parameters also emptied the
\* obstacle set.
UpdateParamsDroppingObstacles ==
  /\ pc = "idle"
  /\ \E m \in 0..MaxSteps : params' = [params EXCEPT !.maxSteps = m]
  /\ returned' = Void
  /\ obstacles' = {}
  /\ UNCHANGED <<chains, initialR0, initialR0SquaredSum, occupied,
                 steps, successfulMoves, pc, slot, attempts>>
  /\ UNCHANGED attemptNo

\* UpdateParams as it would be if taking new parameters also restarted the
\* step count.
UpdateParamsRestartingCount ==
  /\ pc = "idle"
  /\ \E m \in 0..MaxSteps : params' = [params EXCEPT !.maxSteps = m]
  /\ returned' = Void
  /\ steps' = 0
  /\ UNCHANGED <<chains, initialR0, initialR0SquaredSum, obstacles, occupied,
                 successfulMoves, pc, slot, attempts>>
  /\ UNCHANGED attemptNo

\* updateParams(), lines 20-22, as App.tsx:80-82 calls it: the new record
\* differs from the engine's in maxSteps only (simulationSpeed, the other field
\* that reaches this branch, is read by the animation loop alone).
UpdateParams ==
  /\ pc = "idle"
  /\ \E m \in 0..MaxSteps : params' = [params EXCEPT !.maxSteps = m]
  /\ returned' = Void
  /\ UNCHANGED <<chains, initialR0, initialR0SquaredSum, obstacles, occupied,
                 steps, successfulMoves, pc, slot, attempts>>
  /\ UNCHANGED attemptNo

\* NewEngine as it would be if a structural change were handed to
\* updateParams() like the others: new parameters, old geometry.
NewEngineKeepingGeometry ==
  /\ pc = "idle"
  /\ \E p \in {[params EXCEPT !.latticeSize = v] : v \in LatticeSizes}
            \cup {[params EXCEPT !.numChains = v] : v \in 1..MaxChains}
            \cup {[params EXCEPT !.chainLength = v] : v \in 1..MaxLen}
            \cup {[params EXCEPT !.obstacleConcentration = v] : v \in ObstaclePercents} :
       /\ p # params
       /\ p \in ParamSet
       /\ params' = p
  /\ returned' = Void
  /\ UNCHANGED <<chains, initialR0, initialR0SquaredSum, obstacles, occupied,
                 steps, successfulMoves, pc, slot, attempts>>
  /\ UNCHANGED attemptNo

\* App.tsx:71-75: a change of one structural parameter (each control reports
\* one field) replaces the engine by a new one, whose fields start from their
\* initialisers.
NewEngine ==
  /\ pc = "idle"
  /\ \E p \in {[params EXCEPT !.latticeSize = v] : v \in LatticeSizes}
            \cup {[params EXCEPT !.numChains = v] : v \in 1..MaxChains}
            \cup {[params EXCEPT !.chainLength = v] : v \in 1..MaxLen}
            \cup {[params EXCEPT !.obstacleConcentration = v] : v \in ObstaclePercents} :
       /\ p # params
       /\ p \in ParamSet
       /\ params' = p
  /\ chains' = <<>>
  /\ initialR0' = <<>>
  /\ initialR0SquaredSum' = 0
  /\ obstacles' = {}
  /\ occupied' = EmptyMap
  /\ steps' = 0
  /\ successfulMoves' = 0
  /\ pc' = "constructor"
  /\ slot' = 0
  /\ attempts' = 0
  /\ returned' = Void
  /\ attemptNo' = 0

Next ==
  \/ Reset
  \/ PlaceObstacle
  \/ ObstaclesPlaced
  \/ GrowChain
  \/ CaptureInitial
  \/ Step
  \/ GetStats
  \/ UpdateParams
  \/ NewEngine

Spec == Init /\ [][Next]_vars

\* ------------------------------------------------------------------ the application

\* App.tsx:10-17, 31: the application builds its one engine from fixed initial
\* parameters, here a single two-segment chain on the 2 x 2 torus at
\* concentration 0.12; any other parameters are reached through the controls.
InitApp ==
  /\ Init
  /\ params = [latticeSize |-> 2, numChains |-> 1, chainLength |-> 2,
               obstacleConcentration |-> 12, maxSteps |-> MaxSteps]

SpecApp == InitApp /\ [][Next]_vars

\* ------------------------------------------------------------------ unwrapping alone

\* Largest lattice side on which the bond correction is tried on its own.
UnwrapMaxL == 6

\* A two-segment chain on any two sites of a lattice of side 2..UnwrapMaxL,
\* handed to getUnwrappedEndToEnd.
InitUnwrap ==
  /\ params \in [latticeSize : 2..UnwrapMaxL, numChains : {1}, chainLength : {2},
                 obstacleConcentration : {0}, maxSteps : {0}]
  /\ chains \in {<< <<p1, p2>> >> : p1 \in Sites(params.latticeSize),
                                    p2 \in Sites(params.latticeSize)}
  /\ initialR0 = <<>>
  /\ initialR0SquaredSum = 0
  /\ obstacles = {}
  /\ occupied = EmptyMap
  /\ steps = 0
  /\ successfulMoves = 0
  /\ pc = "unwrap"
  /\ slot = 0
  /\ attempts = 0
  /\ returned = Void
  /\ attemptNo = 0

\* One call of getUnwrappedEndToEnd (lines 123-136) on the chain.
Unwrap ==
  /\ pc = "unwrap"
  /\ returned' = [kind |-> "vector",
                  r |-> getUnwrappedEndToEnd(params.latticeSize, chains[1])]
  /\ pc' = "unwrapped"
  /\ UNCHANGED <<params, chains, initialR0, initialR0SquaredSum, obstacles,
                 occupied, steps, successfulMoves, slot, attempts>>
  /\ UNCHANGED attemptNo

NextUnwrap == Unwrap

SpecUnwrap == InitUnwrap /\ [][NextUnwrap]_vars

\* ------------------------------------------------------------------ obstacle placement alone

\* Obstacle concentrations, in percent, for which the placement loop is run on
\* its own: up to eight of the nine sites of the 3 x 3 torus.
PlacementPercents == {0, 12, 25, 40, 50, 75, 99}

\* The field initialisers, for a lattice that is to receive up to
\* floor(0.99 L^2) obstacles.
InitObstacles ==
  /\ params \in [latticeSize : LatticeSizes, numChains : {1}, chainLength : {2},
                 obstacleConcentration : PlacementPercents, maxSteps : {0}]
  /\ chains = <<>>
  /\ initialR0 = <<>>
  /\ initialR0SquaredSum = 0
  /\ obstacles = {}
  /\ occupied = EmptyMap
  /\ steps = 0
  /\ successfulMoves = 0
  /\ pc = "constructor"
  /\ slot = 0
  /\ attempts = 0
  /\ returned = Void
  /\ attemptNo = 0

\* reset() up to the end of the obstacle loop (lines 24-47).
NextObstacles ==
  \/ (pc = "constructor" /\ Reset)
  \/ PlaceObstacle
  \/ ObstaclesPlaced

SpecObstacles == InitObstacles /\ [][NextObstacles]_vars

\* ------------------------------------------------------------------ one growth attempt at a time

\* The parameter records for which reset() is followed attempt by attempt:
\* those of ParamSet, and single two-segment chains on lattices filled with
\* obstacles up to 0.99, where no chain may fit.
GrowParamSet ==
  {p \in ParamSet : p.maxSteps = 0}
    \cup [latticeSize : LatticeSizes, numChains : {1}, chainLength : {2},
          obstacleConcentration : PlacementPercents, maxSteps : {0}]

\* The field initialisers; the constructor is about to call reset().
InitGrow ==
  /\ params \in GrowParamSet
  /\ chains = <<>>
  /\ initialR0 = <<>>
  /\ initialR0SquaredSum = 0
  /\ obstacles = {}
  /\ occupied = EmptyMap
  /\ steps = 0
  /\ successfulMoves = 0
  /\ pc = "constructor"
  /\ slot = 0
  /\ attemptNo = 0
  /\ attempts = 0
  /\ returned = Void

\* TryGrowth as it would be if a failed attempt were not counted.
TryGrowthNotCounting ==
  /\ pc = "chains"
  /\ slot < params.numChains
  /\ attemptNo < GrowthAttempts
  /\ \E r \in GrowthAttempt(params, obstacles, occupied) :
       /\ occupied' = r.occupied
       /\ IF r.chainFound
            THEN /\ chains' = Append(chains, r.chain)
                 /\ slot' = slot + 1
                 /\ attemptNo' = 0
            ELSE UNCHANGED <<chains, slot, attemptNo>>
  /\ UNCHANGED <<params, initialR0, initialR0SquaredSum, obstacles, steps,
                 successfulMoves, pc, attempts, returned>>

\* reset(), lines 52-84: one iteration of the retry loop for chain slot
\* `slot`.  A success commits the chain and leaves the loop (break); a failure
\* goes on to the next attempt.
TryGrowth ==
  /\ pc = "chains"
  /\ slot < params.numChains
  /\ attemptNo < GrowthAttempts
  /\ \E r \in GrowthAttempt(params, obstacles, occupied) :
       /\ occupied' = r.occupied
       /\ IF r.chainFound
            THEN /\ chains' = Append(chains, r.chain)
                 /\ slot' = slot + 1
                 /\ attemptNo' = 0
            ELSE /\ attemptNo' = attemptNo + 1
                 /\ UNCHANGED <<chains, slot>>
  /\ UNCHANGED <<params, initialR0, initialR0SquaredSum, obstacles, steps,
                 successfulMoves, pc, attempts, returned>>

\* reset(), lines 50-52: the retry loop has run out without a chain; the
\* chain loop goes on to the next slot.
SlotGivenUp ==
  /\ pc = "chains"
  /\ slot < params.numChains
  /\ attemptNo >= GrowthAttempts
  /\ slot' = slot + 1
  /\ attemptNo' = 0
  /\ UNCHANGED <<params, chains, initialR0, initialR0SquaredSum, obstacles,
                 occupied, steps, successfulMoves, pc, attempts, returned>>

\* The constructor: reset() from its first line to its return.
NextGrow ==
  \/ (pc = "constructor" /\ Reset)
  \/ PlaceObstacle
  \/ ObstaclesPlaced
  \/ TryGrowth
  \/ SlotGivenUp
  \/ CaptureInitial

SpecGrow == InitGrow /\ [][NextGrow]_vars

\* The records of GrowParamSet for which the end of reset() is looked for:
\* all those on the 2 x 2 torus, and the 3 x 3 torus without obstacles or
\* filled with them up to its last site.
FairGrowParamSet ==
  {p \in GrowParamSet : p.latticeSize = 2 \/ p.obstacleConcentration \in {0, 99}}

InitFairGrow == InitGrow /\ params \in FairGrowParamSet

\* reset() runs to its end without interruption, and a fair sequence of draws
\* does not repeat taken sites for ever.
FairSpecGrow == InitFairGrow /\ [][NextGrow]_vars /\ WF_vars(NextGrow)

\* ------------------------------------------------------------------ one attempt at a time

\* An engine of the application's kind on the 10 x 10 torus without obstacles,
\* as reset() can leave it: one chain (1,1)-(2,1)-(3,1), nothing stepped yet.
StraightChainOnTen ==
  /\ params = [latticeSize |-> 10, numChains |-> 1, chainLength |-> 3,
               obstacleConcentration |-> 0, maxSteps |-> 1]
  /\ chains = << <<Point(1, 1), Point(2, 1), Point(3, 1)>> >>
  /\ initialR0 = <<Point(2, 0)>>
  /\ initialR0SquaredSum = 4
  /\ obstacles = {}
  /\ occupied = [k \in {Key(1, 1), Key(2, 1), Key(3, 1)} |-> 1]
  /\ steps = 0
  /\ successfulMoves = 0
  /\ pc = "idle"
  /\ slot = 0
  /\ attempts = 0
  /\ returned = Void
  /\ attemptNo = 0

InitMove == Init \/ StraightChainOnTen

\* step(), lines 139-141: the early return, or the entry of the sweep loop.
BeginSweep ==
  /\ pc = "idle"
  /\ returned' = Void
  /\ IF steps >= params.maxSteps
       THEN UNCHANGED <<pc, slot>>
       ELSE pc' = "sweep" /\ slot' = 0
  /\ UNCHANGED <<params, chains, initialR0, initialR0SquaredSum, obstacles,
                 occupied, steps, successfulMoves, attempts>>
  /\ UNCHANGED attemptNo

\* step(), line 142: one reptate() call of the sweep loop (lines 147-182).
\* returned records the two draws and whether a move was accepted.
Reptate ==
  /\ pc = "sweep"
  /\ slot < Max(1, params.numChains)
  /\ slot' = slot + 1
  /\ attempts' = attempts + 1
  /\ IF Len(chains) = 0
       THEN /\ returned' = [kind |-> "move", chainIdx |-> 0, isHead |-> FALSE,
                            accepted |-> FALSE]
            /\ UNCHANGED <<chains, occupied, successfulMoves>>
       ELSE \E chainIdx \in 1..Len(chains), isHead \in BOOLEAN :
              \E e \in MoveEnd(params, obstacles,
                               [chains |-> chains, occupied |-> occupied,
                                successfulMoves |-> successfulMoves],
                               chainIdx, isHead) :
                /\ chains' = e.chains
                /\ occupied' = e.occupied
                /\ successfulMoves' = e.successfulMoves
                /\ returned' = [kind |-> "move", chainIdx |-> chainIdx,
                                isHead |-> isHead,
                                accepted |-> e.successfulMoves # successfulMoves]
  /\ UNCHANGED <<params, initialR0, initialR0SquaredSum, obstacles, steps, pc>>
  /\ UNCHANGED attemptNo

\* EndSweep as it would be if the snapshot were taken anew after each sweep.
EndSweepRetakingSnapshot ==
  /\ pc = "sweep"
  /\ slot >= Max(1, params.numChains)
  /\ steps' = steps + 1
  /\ pc' = "idle"
  /\ returned' = Void
  /\ initialR0' = [i \in 1..Len(chains) |->
                     getUnwrappedEndToEnd(params.latticeSize, chains[i])]
  /\ initialR0SquaredSum' = SquaredSum(initialR0', 1)
  /\ UNCHANGED <<params, chains, obstacles, occupied, successfulMoves, slot,
                 attempts>>
  /\ UNCHANGED attemptNo

\* step(), lines 141 and 144: the loop has run out, the sweep is counted.
EndSweep ==
  /\ pc = "sweep"
  /\ slot >= Max(1, params.numChains)
  /\ steps' = steps + 1
  /\ pc' = "idle"
  /\ returned' = Void
  /\ UNCHANGED <<params, chains, initialR0, initialR0SquaredSum, obstacles,
                 occupied, successfulMoves, slot, attempts>>
  /\ UNCHANGED attemptNo

\* The constructor, then step() calls taken one reptate() at a time.
NextMove ==
  \/ (pc = "constructor" /\ Reset)
  \/ PlaceObstacle
  \/ ObstaclesPlaced
  \/ GrowChain
  \/ CaptureInitial
  \/ BeginSweep
  \/ Reptate
  \/ EndSweep

SpecMove == InitMove /\ [][NextMove]_vars

\* ------------------------------------------------------------------ the calls of one engine

\* The constructor and then reset(), step(), getStats() and updateParams() in
\* any order, step() taken one reptate() at a time.
NextCalls ==
  \/ Reset
  \/ PlaceObstacle
  \/ ObstaclesPlaced
  \/ GrowChain
  \/ CaptureInitial
  \/ BeginSweep
  \/ Reptate
  \/ EndSweep
  \/ GetStats
  \/ UpdateParams

SpecCalls == Init /\ [][NextCalls]_vars

\* ------------------------------------------------------------------ properties

\* reset() or the constructor has returned and no call is in progress.
Idle == pc = "idle"

\* The (chain, index) pairs of the population.
Segments == UNION {{<<c, i>> : i \in 1..Len(chains[c])} : c \in 1..Len(chains)}

SiteOf(seg) == chains[seg[1]][seg[2]]

KeyOf(seg) == Key(SiteOf(seg).x, SiteOf(seg).y)

\* One of a, b is among the four periodic neighbours of the other.
Adjacent(L, a, b) ==
  \/ a \in Range(getNeighbors(L, b.x, b.y))
  \/ b \in Range(getNeighbors(L, a.x, a.y))

Abs(n) == IF n < 0 THEN -n ELSE n

RECURSIVE SumCounts(_, _)
\* The sum of occ over the keys in S.
SumCounts(occ, S) ==
  IF S = {}
    THEN 0
    ELSE LET k == CHOOSE q \in S : TRUE
         IN occ[k] + SumCounts(occ, S \ {k})

\* C1: after reset() and after every step(), consecutive segments of every
\* chain are lattice-adjacent: one is among the four periodic neighbours of
\* the other.
C1_Adjacency ==
  Idle => \A c \in 1..Len(chains) : \A i \in 1..(Len(chains[c]) - 1) :
            Adjacent(params.latticeSize, chains[c][i], chains[c][i + 1])

\* C1 witness: moves have been accepted and some bond crosses the periodic
\* boundary of the 3 x 3 lattice.
C1_Witness ==
  /\ Idle
  /\ steps > 0
  /\ successfulMoves > 0
  /\ \E c \in 1..Len(chains) : \E i \in 1..(Len(chains[c]) - 1) :
       Abs(chains[c][i + 1].x - chains[c][i].x) = 2

\* C2: the ledger's keys are exactly the sites holding a segment, each count
\* is the number of (chain, index) pairs on the site, and the counts sum to
\* population size x chainLength.
C2_LedgerConsistent ==
  Idle =>
    /\ DOMAIN occupied = {KeyOf(seg) : seg \in Segments}
    /\ \A k \in DOMAIN occupied :
         occupied[k] = Cardinality({seg \in Segments : KeyOf(seg) = k})
    /\ SumCounts(occupied, DOMAIN occupied) = Len(chains) * params.chainLength

\* C2 witness: two chains are placed and a move has been accepted, so a key
\* has been removed and another added.
C2_Witness ==
  /\ Idle
  /\ Len(chains) = 2
  /\ successfulMoves > 0

\* C3: no segment of any chain is on a site of the obstacle set.
C3_NoSegmentOnObstacle ==
  Idle => \A seg \in Segments : KeyOf(seg) \notin obstacles

\* C3 witness: after an accepted move an end of a chain has an obstacle
\* among its neighbours.
C3_Witness ==
  /\ Idle
  /\ successfulMoves > 0
  /\ \E c \in 1..Len(chains) :
       \E q \in Range(getNeighbors(params.latticeSize, chains[c][1].x, chains[c][1].y)) :
         Key(q.x, q.y) \in obstacles

\* C4: no two distinct (chain, index) pairs are on the same site, and every
\* ledger count is exactly 1.
C4_ExcludedVolume ==
  Idle =>
    /\ \A s1 \in Segments : \A s2 \in Segments : s1 # s2 => SiteOf(s1) # SiteOf(s2)
    /\ \A k \in DOMAIN occupied : occupied[k] = 1

\* C4 witness: the segments fill the whole lattice and a move has been
\* accepted; with no free site, its destination was the site the opposite end
\* of the moving chain vacated.
C4_Witness ==
  /\ Idle
  /\ successfulMoves > 0
  /\ Cardinality(DOMAIN occupied) = params.latticeSize * params.latticeSize

\* C5: every chain of the population has exactly chainLength segments and
\* the population has at most numChains chains.
C5_UniformLength ==
  Idle =>
    /\ Len(chains) <= params.numChains
    /\ \A c \in 1..Len(chains) : Len(chains[c]) = params.chainLength

\* C5 witness: growth left a slot unfilled, the others hold chains of more
\* than one segment, and a move has been accepted since.
C5_Witness ==
  /\ Idle
  /\ Len(chains) > 0
  /\ Len(chains) < params.numChains
  /\ params.chainLength > 1
  /\ successfulMoves > 0
\* The last call was getStats() and `returned` is its record.
StatsReturned == Idle /\ returned.kind = "stats"

\* C6: the acceptanceRatio getStats() returns satisfies
\* 0 <= acceptanceRatio <= 1 in every reachable state.
C6_AcceptanceRatioBounded ==
  StatsReturned =>
    /\ 0 <= returned.acceptanceRatio.num
    /\ returned.acceptanceRatio.num <= returned.acceptanceRatio.den

\* C7: the acceptanceRatio getStats() returns is the success counter divided
\* by the number of reptate() calls made since the last reset, and 0 when
\* none has been made.
C7_AcceptanceRatioIsSuccessPerAttempt ==
  StatsReturned =>
    IF attempts = 0
      THEN returned.acceptanceRatio.num = 0
      ELSE returned.acceptanceRatio.num * attempts
             = successfulMoves * returned.acceptanceRatio.den

C9_UnitBond ==
  (pc = "unwrapped" /\ Adjacent(params.latticeSize, chains[1][1], chains[1][2]))
    => Abs(returned.r.x) + Abs(returned.r.y) = 1

\* C9 witness: the chain (0, 5), (L - 1, 5) has been unwrapped on a lattice
\* of side 6 and the x-component is 1 or -1.
C9_Witness ==
  /\ pc = "unwrapped"
  /\ params.latticeSize = 6
  /\ chains[1] = <<Point(0, 5), Point(5, 5)>>
  /\ Abs(returned.r.x) = 1
  /\ returned.r.y = 0

\* C10: getStats() changes no simulation state, and a getStats() call that
\* follows a getStats() call returns the same record.
C10_GetStatsReadOnly ==
  [][(returned'.kind = "stats" /\ GetStats) =>
       /\ UNCHANGED <<params, chains, initialR0, initialR0SquaredSum, obstacles,
                      occupied, steps, successfulMoves, attempts>>
       /\ (returned.kind = "stats" => returned' = returned)]_vars

\* C10 witness: getStats() has returned after two sweeps that moved a chain
\* away from its initial end-to-end vector.
C10_Witness ==
  /\ StatsReturned
  /\ steps = 2
  /\ successfulMoves > 0
  /\ \E c \in 1..Len(chains) :
       getUnwrappedEndToEnd(params.latticeSize, chains[c]) # initialR0[c]

\* ------------------------------------------------------------------ single attempts

\* This step is a reptate() call that selected a chain.
Attempted ==
  /\ pc = "sweep"
  /\ slot' = slot + 1
  /\ returned'.kind = "move"
  /\ returned'.chainIdx > 0

\* Every neighbour of site h other than site t holds an obstacle.
HemmedIn(h, t) ==
  \A q \in Range(getNeighbors(params.latticeSize, h.x, h.y)) :
    q = t \/ Key(q.x, q.y) \in obstacles

Vacated(old, isHead) == IF isHead THEN old[Len(old)] ELSE old[1]

\* The site an accepted move added to the chain that is now `new`.
Destination(new, isHead) == IF isHead THEN new[1] ELSE new[Len(new)]

\* An accepted head move to t turns [c0..cN-1] into [t, c0..cN-2], an
\* accepted tail move turns it into [c1..cN-1, t], and t's count becomes 1.
ChainSlid(old, new, isHead, occ) ==
  LET t == Destination(new, isHead)
      N == Len(old)
  IN /\ new = (IF isHead THEN <<t>> \o SubSeq(old, 1, N - 1)
                         ELSE SubSeq(old, 2, N) \o <<t>>)
     /\ Count(occ, Key(t.x, t.y)) = 1

\* C13 as stated: an accepted move shifts the chain by one site towards its
\* destination t, t's ledger count becomes 1 and the count of the end site
\* given up is one less than before.
C13_VacatedCountDrops ==
  [][(Attempted /\ returned'.accepted)
       => LET c == returned'.chainIdx
              v == Vacated(chains[c], returned'.isHead)
          IN /\ ChainSlid(chains[c], chains'[c], returned'.isHead, occupied')
             /\ Count(occupied', Key(v.x, v.y)) = Count(occupied, Key(v.x, v.y)) - 1]_vars

\* C13 amended: an accepted move shifts the chain by one site towards its
\* destination t and t's ledger count becomes 1; the count of the end site
\* given up is one less than before unless t is that very site, whose count
\* is then 1 as before.  No other chain and no other count changes.  On the
\* 10 x 10 torus without obstacles the head move of (1,1)-(2,1)-(3,1) to
\* (0,1) gives (0,1)-(1,1)-(2,1) and leaves (3,1) with count 0.
C13_AcceptedMoveSlides ==
  [][(Attempted /\ returned'.accepted)
       => LET c == returned'.chainIdx
              v == Vacated(chains[c], returned'.isHead)
              t == Destination(chains'[c], returned'.isHead)
          IN /\ ChainSlid(chains[c], chains'[c], returned'.isHead, occupied')
             /\ Count(occupied', Key(v.x, v.y)) =
                  (IF t = v THEN 1 ELSE Count(occupied, Key(v.x, v.y)) - 1)
             /\ \A d \in 1..Len(chains) : d # c => chains'[d] = chains[d]
             /\ \A s \in Sites(params.latticeSize) :
                  s \notin {v, t} =>
                    Count(occupied', Key(s.x, s.y)) = Count(occupied, Key(s.x, s.y))
             /\ (/\ params.latticeSize = 10
                 /\ chains[c] = <<Point(1, 1), Point(2, 1), Point(3, 1)>>
                 /\ t = Point(0, 1))
                  => /\ returned'.isHead
                     /\ chains'[c] = <<Point(0, 1), Point(1, 1), Point(2, 1)>>
                     /\ Count(occupied', Key(3, 1)) = 0]_vars

\* C13 witness: on the 10 x 10 torus the chain (1,1)-(2,1)-(3,1) has moved its
\* head to (0,1); (3,1) is no longer in the ledger.
C13_Witness ==
  /\ params.latticeSize = 10
  /\ returned.kind = "move"
  /\ returned.isHead
  /\ returned.accepted
  /\ chains = << <<Point(0, 1), Point(1, 1), Point(2, 1)>> >>
  /\ Count(occupied, Key(3, 1)) = 0
  /\ Count(occupied, Key(0, 1)) = 1

\* ------------------------------------------------------------------ sweeps

\* C14 as stated: every completed sweep has made exactly M move attempts, M
\* the number of chains in the population, and has added 1 to the step
\* counter: with a population of M >= 1 chains of two or more segments,
\* after `steps` sweeps the reptate() calls made number steps * M.
C14_OneAttemptPerChain ==
  (Idle /\ Len(chains) > 0 /\ params.chainLength >= 2)
    => attempts = steps * Len(chains)

\* C15: isFinished is returned true exactly when steps >= maxSteps; a step()
\* call made while steps >= maxSteps leaves chains, ledger, step counter and
\* success counter as they are; and no step that keeps maxSteps takes the
\* step counter from at most maxSteps to above it.
C15_FinishedFreezes ==
  /\ [](StatsReturned => (returned.isFinished <=> steps >= params.maxSteps))
  /\ [][(pc = "idle" /\ steps >= params.maxSteps /\ Step)
          => UNCHANGED <<chains, occupied, steps, successfulMoves>>]_vars
  /\ [][(steps <= params.maxSteps /\ params'.maxSteps = params.maxSteps)
          => steps' <= params'.maxSteps]_vars

\* C15 witness: getStats() reports a finished run whose step counter has
\* come up to a positive maxSteps, with moves accepted on the way.
C15_Witness ==
  /\ StatsReturned
  /\ returned.isFinished
  /\ params.maxSteps > 0
  /\ steps = params.maxSteps
  /\ successfulMoves > 0

\* ------------------------------------------------------------------ degenerate populations

\* C16 as stated: with an empty population step() changes nothing, so the
\* step counter, the success counter and the ledger stay as reset() left them.
C16_EmptyPopulationStepIsNoOp ==
  (Idle /\ Len(chains) = 0 /\ params.chainLength >= 2)
    => (steps = 0 /\ successfulMoves = 0 /\ occupied = EmptyMap)

\* C17 as stated: a reptate() that selects a chain of fewer than two segments
\* accepts no move and leaves chains, ledger and success counter as they are.
C17_ShortChainSkipped ==
  [][(Attempted /\ Len(chains[returned'.chainIdx]) < 2)
       => /\ ~returned'.accepted
          /\ UNCHANGED <<chains, occupied, successfulMoves>>]_vars

\* The configurations that are to be refused: obstacle target >= L^2,
\* latticeSize < 2, chainLength < 2 or numChains <= 0.
InvalidConfig(p) ==
  \/ NumObstacles(p) >= p.latticeSize * p.latticeSize
  \/ p.latticeSize < 2
  \/ p.chainLength < 2
  \/ p.numChains <= 0

\* C18 as stated: an engine handed an invalid configuration is refused, so
\* its constructor or reset() never returns with a simulation state built.
C18_InvalidConfigRejected ==
  InvalidConfig(params) => ~Idle

\* ------------------------------------------------------------------ obstacles

\* C19: once the placement loop of reset() has ended the obstacle set holds
\* exactly floor(L^2 * obstacleConcentration) distinct sites, each with both
\* coordinates in 0..L-1; while the loop runs it never holds more.
C19_ObstacleCount ==
  LET L == params.latticeSize
      target == (L * L * params.obstacleConcentration) \div 100
  IN /\ Cardinality(obstacles) <= target
     /\ \A k \in obstacles : k[1] \in 0..(L - 1) /\ k[2] \in 0..(L - 1)
     /\ pc = "chains" => Cardinality(obstacles) = target

\* C19 witness: the loop has ended on the 3 x 3 torus at concentration 0.99
\* with eight of the nine sites in the set.
C19_Witness ==
  /\ pc = "chains"
  /\ params.latticeSize = 3
  /\ params.obstacleConcentration = 99
  /\ Cardinality(obstacles) = 8

\* C20: step(), getStats() and updateParams(), the calls that start and end
\* with no call in progress, leave the obstacle set as it is; the set changes
\* only inside reset() or when a new engine replaces this one.
C20_ObstaclesQuenched ==
  [][/\ (pc = "idle" /\ pc' = "idle") => obstacles' = obstacles
     /\ obstacles' # obstacles
          => (pc = "obstacles" \/ pc' \in {"obstacles", "constructor"})]_vars

\* C20 witness: two sweeps with accepted moves and a getStats() later, the
\* obstacle placed by reset() is still there.
C20_Witness ==
  /\ StatsReturned
  /\ steps = 2
  /\ successfulMoves > 0
  /\ Cardinality(obstacles) = 1

\* ------------------------------------------------------------------ parameters

\* C21: updateParams(), the one call that changes the parameter record and
\* ends with no call in progress, leaves chains, obstacles, ledger, initial
\* snapshot, step counter and success counter as they are; when it raises
\* maxSteps above the step counter of a finished run, the run is no longer
\* finished and step() goes on from that geometry.
C21_UpdateParamsKeepsState ==
  [][(pc = "idle" /\ pc' = "idle" /\ params' # params)
       => /\ UNCHANGED <<chains, obstacles, occupied, initialR0,
                         initialR0SquaredSum, steps, successfulMoves>>
          /\ \A f \in {"latticeSize", "numChains", "chainLength",
                       "obstacleConcentration"} : params'[f] = params[f]
          /\ (steps >= params.maxSteps /\ params'.maxSteps > steps)
               => steps' < params'.maxSteps]_vars

\* C21 witness: a run that moved chains during one sweep has had its
\* maxSteps taken down to 0 by updateParams(); chains and counters are kept.
C21_Witness ==
  /\ Idle
  /\ params.maxSteps = 0
  /\ steps = 1
  /\ successfulMoves > 0
  /\ Len(chains) > 0
  /\ \E c \in 1..Len(chains) :
       getUnwrappedEndToEnd(params.latticeSize, chains[c]) # initialR0[c]

\* The geometry is one reset() builds for parameters p: obstacles number
\* floor(L^2 c) and lie on the lattice, no more than numChains chains, each
\* of chainLength segments on the lattice.
BuiltFor(p) ==
  LET L == p.latticeSize
      OnLattice(x, y) == x \in 0..(L - 1) /\ y \in 0..(L - 1)
  IN /\ Cardinality(obstacles) = NumObstacles(p)
     /\ \A k \in obstacles : OnLattice(k[1], k[2])
     /\ Len(chains) <= p.numChains
     /\ Len(initialR0) = Len(chains)
     /\ \A c \in 1..Len(chains) :
          /\ Len(chains[c]) = p.chainLength
          /\ \A i \in 1..Len(chains[c]) : OnLattice(chains[c][i].x, chains[c][i].y)

\* A step changes latticeSize, numChains, chainLength or obstacleConcentration.
StructuralChange ==
  \E f \in {"latticeSize", "numChains", "chainLength", "obstacleConcentration"} :
    params'[f] # params[f]

ActiveEnd(old, isHead) == IF isHead THEN old[1] ELSE old[Len(old)]

\* Site q is not an obstacle and either holds no segment or is the site
\* `vacating` holding exactly one.
ValidDestination(q, vacating) ==
  /\ Key(q.x, q.y) \notin obstacles
  /\ \/ Count(occupied, Key(q.x, q.y)) = 0
     \/ (q = vacating /\ Count(occupied, Key(vacating.x, vacating.y)) = 1)

\* The valid destinations among the four neighbours of the active end.
ValidNeighbours(old, isHead) ==
  {q \in Range(getNeighbors(params.latticeSize, ActiveEnd(old, isHead).x,
                            ActiveEnd(old, isHead).y)) :
     ValidDestination(q, Vacated(old, isHead))}

C24_RejectedAttemptChangesNothing ==
  /\ [][(Attempted /\ ValidNeighbours(chains[returned'.chainIdx],
                                      returned'.isHead) = {})
          => /\ ~returned'.accepted
             /\ UNCHANGED <<chains, occupied, successfulMoves, steps, obstacles,
                            initialR0, initialR0SquaredSum, params>>
             /\ pc' = "sweep"]_vars
  /\ [][(pc = "sweep" /\ pc' = "idle")
          => (steps' = steps + 1 /\ successfulMoves' = successfulMoves)]_vars

\* C24 witness: a sweep over a population of chains of two or more segments
\* has ended with every attempt rejected: the step counter is 1, the success
\* counter 0.
C24_Witness ==
  /\ Idle
  /\ Len(chains) > 0
  /\ params.chainLength >= 2
  /\ steps = 1
  /\ attempts >= 1
  /\ successfulMoves = 0

\* ------------------------------------------------------------------ growth

\* C25: a growth attempt of reset() that commits no chain, because its start
\* site was taken or because the partial chain got trapped, leaves the ledger
\* and the population exactly as they were before it; throughout chain
\* initialisation the ledger counts the segments of the committed chains and
\* nothing else.
C25_FailedAttemptRolledBack ==
  /\ [][(pc = "chains" /\ attemptNo' = attemptNo + 1)
          => (occupied' = occupied /\ chains' = chains)]_vars
  /\ [](pc = "chains"
          => \A s \in Sites(params.latticeSize) :
               Count(occupied, Key(s.x, s.y)) =
                 Cardinality({seg \in Segments : SiteOf(seg) = s}))

\* C25 witness: on the 2 x 2 torus with one obstacle, where a three-segment
\* chain started on the middle free site gets trapped after two segments,
\* attempts have failed and the ledger is empty again; no chain is committed.
C25_Witness ==
  /\ pc = "chains"
  /\ params.latticeSize = 2
  /\ params.chainLength = 3
  /\ Cardinality(obstacles) = 1
  /\ slot = 0
  /\ attemptNo >= 2
  /\ chains = <<>>
  /\ occupied = EmptyMap

\* C26: reset() comes to its end for every configuration with a
\* concentration below 1: under fair draws the obstacle loop ends and the
\* constructor returns; a chain slot is never given more than GrowthAttempts
\* attempts, each step inside a slot being one more attempt, and the slots are
\* taken once each in order, numChains of them at most.
C26_ResetTerminates ==
  /\ <>(pc = "idle")
  /\ [](pc = "chains" => (attemptNo <= GrowthAttempts /\ slot <= params.numChains))
  /\ [][(pc = "chains" /\ pc' = "chains")
          => \/ (slot' = slot /\ attemptNo' = attemptNo + 1)
             \/ (slot' = slot + 1 /\ attemptNo' = 0 /\ slot < params.numChains)]_vars

\* C26 witness: on the 3 x 3 torus at concentration 0.99 the one free site
\* cannot hold a two-segment chain; all attempts have failed and reset() has
\* returned with an empty population.
C26_Witness ==
  /\ Idle
  /\ params.latticeSize = 3
  /\ params.obstacleConcentration = 99
  /\ Cardinality(obstacles) = 8
  /\ chains = <<>>
  /\ occupied = EmptyMap

\* ------------------------------------------------------------------ counters

\* This step is the entry of reset().
ResetEntered == pc \in {"constructor", "idle"} /\ pc' = "obstacles"

\* C27: the entry of reset() sets the step counter and the success counter
\* to 0; no other step of reset(), step(), getStats() or updateParams() takes
\* either counter down, and the step counter goes up by one at a time; an
\* attempt adds exactly 1 to the success counter when the active end has a
\* valid destination and 0 when it has none.
C27_CountersMonotone ==
  /\ [][ResetEntered => (steps' = 0 /\ successfulMoves' = 0)]_vars
  /\ [][~ResetEntered
          => /\ steps' \in {steps, steps + 1}
             /\ successfulMoves' >= successfulMoves]_vars
  /\ [][Attempted
          => successfulMoves' = successfulMoves +
               (IF ValidNeighbours(chains[returned'.chainIdx],
                                   returned'.isHead) # {} THEN 1 ELSE 0)]_vars
  /\ [][~(pc = "sweep" /\ pc' = "sweep")
          => (successfulMoves' = successfulMoves \/ ResetEntered)]_vars

\* C27 witness: after two sweeps in which some attempts were accepted and
\* some rejected, and a getStats(), the counters stand at 2 sweeps and fewer
\* successes than attempts.
C27_Witness ==
  /\ StatsReturned
  /\ Len(chains) > 0
  /\ steps = 2
  /\ successfulMoves >= 1
  /\ successfulMoves < attempts

\* ------------------------------------------------------------------ snapshot

\* Chain `new` is chain `old` itself or `old` moved by one site at either end.
SameChain(old, new) ==
  LET N == Len(old)
  IN /\ Len(new) = N
     /\ \/ new = old
        \/ SubSeq(new, 2, N) = SubSeq(old, 1, N - 1)
        \/ SubSeq(new, 1, N - 1) = SubSeq(old, 2, N)

\* C28: the snapshot is written where reset() ends, one unwrapped end-to-end
\* vector per chain in population order and the sum of their squares; apart
\* from being cleared where reset() begins it is changed by no step of
\* step(), getStats() or updateParams(); and the population keeps its size
\* and order, index i holding the same chain, moved or not, after every such
\* step.
C28_SnapshotImmutable ==
  /\ [][(pc = "chains" /\ pc' = "idle")
          => /\ initialR0' = [i \in 1..Len(chains) |->
                                getUnwrappedEndToEnd(params.latticeSize, chains[i])]
             /\ initialR0SquaredSum' = SquaredSum(initialR0', 1)
             /\ chains' = chains]_vars
  /\ [][(pc \in {"idle", "sweep"} /\ pc' \in {"idle", "sweep"})
          => /\ UNCHANGED <<initialR0, initialR0SquaredSum>>
             /\ Len(chains') = Len(chains)
             /\ \A i \in 1..Len(chains) : SameChain(chains[i], chains'[i])]_vars
  /\ [][(initialR0' # initialR0 \/ initialR0SquaredSum' # initialR0SquaredSum)
          => ((pc = "chains" /\ pc' = "idle") \/ ResetEntered)]_vars
  /\ [](pc \in {"idle", "sweep"} => Len(initialR0) = Len(chains))

\* C28 witness: two chains on the 2 x 2 torus; after two sweeps the second
\* has an end-to-end vector other than the one the snapshot holds for it.
C28_Witness ==
  /\ Idle
  /\ Len(chains) = 2
  /\ steps = 2
  /\ initialR0[2] # getUnwrappedEndToEnd(params.latticeSize, chains[2])
  /\ initialR0SquaredSum = SquaredSum(initialR0, 1)
  /\ initialR0SquaredSum > 0

\* ------------------------------------------------------------------ population

\* C29: an attempt leaves every chain other than the selected one exactly as
\* it was, and the selected one in its place, moved by one site or not at
\* all; no step of step() changes the number of chains.
C29_OneChainPerAttempt ==
  /\ [][Attempted
          => /\ Len(chains') = Len(chains)
             /\ \A d \in 1..Len(chains) :
                  IF d = returned'.chainIdx
                    THEN SameChain(chains[d], chains'[d])
                    ELSE chains'[d] = chains[d]]_vars
  /\ [][(pc \in {"idle", "sweep"} /\ pc' \in {"idle", "sweep"} /\ ~Attempted)
          => chains' = chains]_vars

\* C29 witness: the first attempt of the first sweep over two chains moved
\* the second; the first still has the end-to-end vector of the snapshot.
C29_Witness ==
  /\ pc = "sweep"
  /\ steps = 0
  /\ slot = 1
  /\ Len(chains) = 2
  /\ returned.kind = "move"
  /\ returned.accepted
  /\ returned.chainIdx = 2
  /\ getUnwrappedEndToEnd(params.latticeSize, chains[1]) = initialR0[1]
  /\ getUnwrappedEndToEnd(params.latticeSize, chains[2]) # initialR0[2]

====
